---- MODULE Spec2Model ----
(***************************************************************************)
(* A model of pdf-text-extractor (src/main.rs): font resolution, the       *)
(* per-page content interpreter, the row merger, the superscript /         *)
(* subscript inferencer and the transcript emitter.                        *)
(*                                                                         *)
(* Strings are sequences of Unicode scalar values, byte strings are        *)
(* sequences of 0..255, a BTreeMap is a function whose DOMAIN is its key   *)
(* set (iterated in ascending key order), Option::None is the value None.  *)
(***************************************************************************)
EXTENDS Integers, Sequences, FiniteSets, TLC

VARIABLES
    pc,                 \* position of main(): see the actions below
    fatal,              \* "none", or the panic / Err that ended the run
    pages,              \* number of pages of the document (document.get_pages())
    fonts,              \* main.rs:60   the font cache, font id -> Font
    page_number,        \* main.rs:86   the page being interpreted (1-based)
    operations,         \* main.rs:94   the operations of that page consumed so far
    op_count,           \* the number of operations consumed so far, over all pages
    current_font_id,    \* main.rs:87
    in_text,            \* main.rs:89
    current_text,       \* main.rs:90
    x,                  \* main.rs:91
    y,                  \* main.rs:92
    text_chunks,        \* main.rs:84   the chunks pushed by the interpreter
    merged_chunks,      \* main.rs:145  (the shadowing text_chunks)
    upward_offsets,     \* main.rs:149
    previous_y,         \* main.rs:150
    superscript_offset, \* main.rs:159
    new_text_chunks,    \* main.rs:165
    last_y,             \* main.rs:166
    last_x,             \* main.rs:167
    next_row,           \* position of the iterator of the loops at 168 and 195
    final_chunks,       \* main.rs:193  (the shadowing text_chunks)
    stdout,             \* the lines printed so far
    font,               \* Font::decode: self
    text,               \* Font::decode: the text argument
    decoded,            \* Font::decode: the returned String
    operation,          \* parse_unicode_map: the operation handled last (main.rs:227)
    result              \* parse_unicode_map: result (main.rs:225), or the panic

vars ==
    << pc, fatal, pages, fonts, page_number, operations, op_count, current_font_id,
       in_text,
       current_text, x, y, text_chunks, merged_chunks, upward_offsets, previous_y,
       superscript_offset, new_text_chunks, last_y, last_x, next_row,
       final_chunks, stdout, font, text, decoded, operation, result >>

\* Option: None, Some(v); v is opt[1]
None ==
    << >>

Some(v) ==
    << v >>

(***************************************************************************)
(* Bounds of the model.                                                    *)
(***************************************************************************)
\* rows of a row sequence given to the post-interpretation passes
MaxRows == 4

(***************************************************************************)
(* Small helpers.                                                          *)
(***************************************************************************)
Abs(n) ==
    IF n < 0 THEN -n ELSE n

Min(S) ==
    CHOOSE m \in S : \A k \in S : m <= k

Max(S) ==
    CHOOSE m \in S : \A k \in S : k <= m

RECURSIVE SortedKeys(_)
\* the keys of a BTreeMap in iteration (ascending) order
SortedKeys(S) ==
    IF S = {} THEN << >> ELSE << Min(S) >> \o SortedKeys(S \ {Min(S)})

\* BTreeMap::insert
MapInsert(m, k, v) ==
    [ j \in DOMAIN m \cup {k} |-> IF j = k THEN v ELSE m[j] ]

EmptyMap ==
    [ j \in {} |-> 0 ]

TextChunk(t, cx, cy) ==
    [ text |-> t, x |-> cx, y |-> cy ]

(***************************************************************************)
(* Arithmetic on i32 (the type of x and y, main.rs:34-35).  A subtraction,   *)
(* negation or abs whose result does not fit panics in a build with         *)
(* overflow checks and wraps around in a build without them.                *)
(***************************************************************************)
I32Max == 2147483647

I32Min ==
    -I32Max - 1

\* a - b does not fit in an i32
SubOverflows(a, b) ==
    \/ b < 0 /\ a > I32Max + b
    \/ b > 0 /\ a < I32Min + b

\* a - b modulo 2^32, as an i32
WrappingSub(a, b) ==
    IF b < 0 /\ a > I32Max + b THEN ((a + I32Min) - b) + I32Min
    ELSE IF b > 0 /\ a < I32Min + b THEN ((a - I32Min) - b) - I32Min
    ELSE a - b

\* -a modulo 2^32: -i32::MIN is i32::MIN
WrappingNeg(a) ==
    IF a = I32Min THEN I32Min ELSE -a

\* a.abs() modulo 2^32
WrappingAbs(a) ==
    IF a < 0 THEN WrappingNeg(a) ELSE a

(***************************************************************************)
(* merge_text_rows, main.rs:202-219.  The loop is a fold over the input    *)
(* with the accumulator (merged_text_chunks, last_text_chunk).             *)
(***************************************************************************)
\* A merger that closes a row as soon as one chunk has been appended to it.
MergeStepPairsOnly(acc, text_chunk) ==
    IF acc.last # None /\ acc.last[1].y = text_chunk.y
    THEN [ merged |-> Append(acc.merged,
                             [ acc.last[1] EXCEPT !.text = @ \o text_chunk.text ]),
           last |-> None ]
    ELSE [ merged |-> IF acc.last = None THEN acc.merged
                      ELSE Append(acc.merged, acc.last[1]),
           last |-> Some(text_chunk) ]

\* A merger that keeps the position of the last chunk of a run, not the first.
MergeStepKeepsLast(acc, text_chunk) ==
    IF acc.last # None /\ acc.last[1].y = text_chunk.y
    THEN [ acc EXCEPT !.last = Some(TextChunk(acc.last[1].text \o text_chunk.text,
                                              text_chunk.x, text_chunk.y)) ]
    ELSE [ merged |-> IF acc.last = None THEN acc.merged
                      ELSE Append(acc.merged, acc.last[1]),
           last |-> Some(text_chunk) ]

\* A merger that keeps a row's first text only: the push_str of line 208 is left out.
MergeStepDropsText(acc, text_chunk) ==
    IF acc.last # None /\ acc.last[1].y = text_chunk.y
    THEN acc
    ELSE [ merged |-> IF acc.last = None THEN acc.merged
                      ELSE Append(acc.merged, acc.last[1]),
           last |-> Some(text_chunk) ]

\* one iteration of the loop at 205-214
MergeStep(acc, text_chunk) ==
    IF acc.last # None /\ acc.last[1].y = text_chunk.y
    THEN [ acc EXCEPT !.last[1].text = acc.last[1].text \o text_chunk.text ]
    ELSE [ merged |-> IF acc.last = None THEN acc.merged
                      ELSE Append(acc.merged, acc.last[1]),
           last |-> Some(text_chunk) ]

RECURSIVE MergeLoop(_, _)
MergeLoop(acc, chunks) ==
    IF chunks = << >> THEN acc
    ELSE MergeLoop(MergeStep(acc, Head(chunks)), Tail(chunks))

merge_text_rows(chunks) ==
    LET acc == MergeLoop([ merged |-> << >>, last |-> None ], chunks)
    IN  IF acc.last = None THEN acc.merged ELSE Append(acc.merged, acc.last[1])

(***************************************************************************)
(* Phase 1, main.rs:149-158: the tally loop over the merged rows.          *)
(***************************************************************************)
\* previous_y before the loop (main.rs:150)
TallyInit(rows) ==
    0

\* one iteration of the loop at 151-158
TallyStep(acc, text_chunk) ==
    LET offset == WrappingSub(text_chunk.y, acc.previous_y)
        key == WrappingNeg(offset)
    IN  [ upward_offsets |->
              IF offset < 0
              THEN MapInsert(acc.upward_offsets, key,
                             IF key \in DOMAIN acc.upward_offsets
                             THEN acc.upward_offsets[key] + 1 ELSE 1)
              ELSE acc.upward_offsets,
          previous_y |-> text_chunk.y ]

\* the subtraction of line 152 or the negation of line 155 overflows for a row
TallyOverflows(rows) ==
    \E i \in 2..Len(rows) :
        LET before == IF i = 2 THEN TallyInit(rows) ELSE rows[i - 1].y
        IN  IF SubOverflows(rows[i].y, before) THEN TRUE
            ELSE rows[i].y - before = I32Min

RECURSIVE TallyLoop(_, _)
TallyLoop(acc, rows) ==
    IF rows = << >> THEN acc
    ELSE TallyLoop(TallyStep(acc, Head(rows)), Tail(rows))

\* the whole loop: text_chunks.iter().skip(1)
Tally(rows) ==
    TallyLoop([ upward_offsets |-> EmptyMap, previous_y |-> TallyInit(rows) ],
              IF rows = << >> THEN << >> ELSE Tail(rows))

(***************************************************************************)
(* main.rs:159-162: upward_offsets.iter().max_by_key(|(_, &count)| count). *)
(* Iterator::max_by_key returns the LAST of several equally maximal        *)
(* elements; the iteration is in ascending key order.                      *)
(***************************************************************************)
\* A selection that keeps the first of several equally maximal elements.
MaxStepKeepsFirst(best, key, count) ==
    IF best = None \/ count > best[1].count
    THEN Some([ key |-> key, count |-> count ]) ELSE best

\* the fold step of max_by_key: the later element wins unless it is smaller
MaxStep(best, key, count) ==
    IF best = None \/ count >= best[1].count
    THEN Some([ key |-> key, count |-> count ]) ELSE best

RECURSIVE MaxLoop(_, _, _)
MaxLoop(best, keys, hist) ==
    IF keys = << >> THEN best
    ELSE MaxLoop(MaxStep(best, Head(keys), hist[Head(keys)]), Tail(keys), hist)

\* None when the histogram is empty (the expect at 162 then panics)
max_by_key(hist) ==
    MaxLoop(None, SortedKeys(DOMAIN hist), hist)

(***************************************************************************)
(* Phase 2, main.rs:168-191: one iteration of the reclassification loop.   *)
(* st is (last_x, last_y, new_text_chunks).                                *)
(***************************************************************************)
SupTag ==
    << 115, 117, 112 >>

SubTag ==
    << 115, 117, 98 >>

\* format!("<{}>{}</{}>", html_tag_name, text, html_tag_name)
Wrap(html_tag_name, t) ==
    << 60 >> \o html_tag_name \o << 62 >> \o t \o << 60, 47 >> \o html_tag_name \o << 62 >>

\* A reclassification that lets the wrapped row move the baseline.
ReclassifyStepMovesBaseline(st, text_chunk, S) ==
    IF text_chunk.x < st.last_x
    THEN [ last_x |-> text_chunk.x, last_y |-> text_chunk.y,
           new_text_chunks |-> Append(st.new_text_chunks, text_chunk) ]
    ELSE LET offset == WrappingSub(text_chunk.y, st.last_y)
         IN  IF WrappingAbs(offset) <= S /\ offset # 0
             THEN [ last_x |-> text_chunk.x, last_y |-> text_chunk.y,
                    new_text_chunks |-> Append(st.new_text_chunks,
                        TextChunk(Wrap(IF offset > 0 THEN SubTag ELSE SupTag,
                                       text_chunk.text),
                                  text_chunk.x, st.last_y)) ]
             ELSE [ last_x |-> text_chunk.x, last_y |-> text_chunk.y,
                    new_text_chunks |-> Append(st.new_text_chunks, text_chunk) ]

ReclassifyStep(st, text_chunk, S) ==
    IF text_chunk.x < st.last_x
    THEN [ last_x |-> text_chunk.x, last_y |-> text_chunk.y,
           new_text_chunks |-> Append(st.new_text_chunks, text_chunk) ]
    ELSE LET offset == WrappingSub(text_chunk.y, st.last_y)
         IN  IF WrappingAbs(offset) <= S /\ offset # 0
             THEN [ last_x |-> text_chunk.x, last_y |-> st.last_y,
                    new_text_chunks |-> Append(st.new_text_chunks,
                        TextChunk(Wrap(IF offset > 0 THEN SubTag ELSE SupTag,
                                       text_chunk.text),
                                  text_chunk.x, st.last_y)) ]
             ELSE [ last_x |-> text_chunk.x, last_y |-> text_chunk.y,
                    new_text_chunks |-> Append(st.new_text_chunks, text_chunk) ]

\* the subtraction of line 176 or the abs of line 177 overflows for the row
ReclassifyOverflows(st, text_chunk) ==
    /\ ~(text_chunk.x < st.last_x)
    /\ IF SubOverflows(text_chunk.y, st.last_y) THEN TRUE
       ELSE text_chunk.y - st.last_y = I32Min

(***************************************************************************)
(* println!("Superscript offset: {}", superscript_offset), main.rs:163.    *)
(***************************************************************************)
RECURSIVE Decimal(_)
\* the decimal digits of a natural number, as characters
Decimal(n) ==
    IF n < 10 THEN << 48 + n >> ELSE Decimal(n \div 10) \o << 48 + (n % 10) >>

\* the Display of an i32
DisplayInt(n) ==
    IF n < 0 THEN << 45 >> \o Decimal(-n) ELSE Decimal(n)

\* "Superscript offset: "
OffsetLabel ==
    << 83, 117, 112, 101, 114, 115, 99, 114, 105, 112, 116, 32,
       111, 102, 102, 115, 101, 116, 58, 32 >>

InfoLine(n) ==
    OffsetLabel \o DisplayInt(n)

(***************************************************************************)
(* The post-interpretation passes of main(), main.rs:145-199.              *)
(***************************************************************************)
InterpVars ==
    << pages, fonts, page_number, operations, op_count, current_font_id, in_text,
       current_text, x, y, text_chunks >>

FnVars ==
    << font, text, decoded, operation, result >>

\* main.rs:145
MergeRows ==
    /\ pc = "merge"
    /\ merged_chunks' = merge_text_rows(text_chunks)
    /\ pc' = "tally"
    /\ UNCHANGED << fatal, InterpVars, upward_offsets, previous_y, superscript_offset,
                    new_text_chunks, last_y, last_x, next_row, final_chunks, stdout,
                    FnVars >>

\* main.rs:149-158
TallyOffsets ==
    /\ pc = "tally"
    /\ upward_offsets' = Tally(merged_chunks).upward_offsets
    /\ previous_y' = Tally(merged_chunks).previous_y
    /\ pc' = "select"
    /\ UNCHANGED << fatal, InterpVars, merged_chunks, superscript_offset,
                    new_text_chunks, last_y, last_x, next_row, final_chunks, stdout,
                    FnVars >>

\* A selection that goes on without reclassification when there is no offset.
SelectOffsetDegrades ==
    /\ pc = "select"
    /\ max_by_key(upward_offsets) = None
    /\ superscript_offset' = 0
    /\ new_text_chunks' = << >>
    /\ last_y' = 0
    /\ last_x' = 0
    /\ next_row' = 1
    /\ pc' = "reclassify"
    /\ UNCHANGED << fatal, InterpVars, merged_chunks, upward_offsets, previous_y,
                    final_chunks, stdout, FnVars >>

\* main.rs:159-162, the expect panics: "No superscript offset"
SelectOffsetPanics ==
    /\ pc = "select"
    /\ max_by_key(upward_offsets) = None
    /\ pc' = "fatal"
    /\ fatal' = "NoSuperscriptOffset"
    /\ UNCHANGED << InterpVars, merged_chunks, upward_offsets, previous_y,
                    superscript_offset, new_text_chunks, last_y, last_x, next_row,
                    final_chunks, stdout, FnVars >>

\* main.rs:159-167
SelectOffset ==
    /\ pc = "select"
    /\ max_by_key(upward_offsets) # None
    /\ superscript_offset' = max_by_key(upward_offsets)[1].key
    /\ stdout' = Append(stdout, InfoLine(superscript_offset'))
    /\ new_text_chunks' = << >>
    /\ last_y' = 0
    /\ last_x' = 0
    /\ next_row' = 1
    /\ pc' = "reclassify"
    /\ UNCHANGED << fatal, InterpVars, merged_chunks, upward_offsets, previous_y,
                    final_chunks, FnVars >>

\* main.rs:168-191, one row
Reclassify ==
    /\ pc = "reclassify"
    /\ next_row <= Len(merged_chunks)
    /\ LET st == ReclassifyStep([ last_x |-> last_x, last_y |-> last_y,
                                  new_text_chunks |-> new_text_chunks ],
                                merged_chunks[next_row], superscript_offset)
       IN  /\ last_x' = st.last_x
           /\ last_y' = st.last_y
           /\ new_text_chunks' = st.new_text_chunks
    /\ next_row' = next_row + 1
    /\ UNCHANGED << pc, fatal, InterpVars, merged_chunks, upward_offsets, previous_y,
                    superscript_offset, final_chunks, stdout, FnVars >>

\* main.rs:193
RemergeRows ==
    /\ pc = "reclassify"
    /\ next_row > Len(merged_chunks)
    /\ final_chunks' = merge_text_rows(new_text_chunks)
    /\ next_row' = 1
    /\ pc' = "print"
    /\ UNCHANGED << fatal, InterpVars, merged_chunks, upward_offsets, previous_y,
                    superscript_offset, new_text_chunks, last_y, last_x, stdout,
                    FnVars >>

\* main.rs:195-197, one row
PrintRow ==
    /\ pc = "print"
    /\ next_row <= Len(final_chunks)
    /\ stdout' = Append(stdout, final_chunks[next_row].text)
    /\ next_row' = next_row + 1
    /\ UNCHANGED << pc, fatal, InterpVars, merged_chunks, upward_offsets, previous_y,
                    superscript_offset, new_text_chunks, last_y, last_x, final_chunks,
                    FnVars >>

\* main.rs:199
Finish ==
    /\ pc = "print"
    /\ next_row > Len(final_chunks)
    /\ pc' = "done"
    /\ UNCHANGED << fatal, InterpVars, merged_chunks, upward_offsets, previous_y,
                    superscript_offset, new_text_chunks, last_y, last_x, next_row,
                    final_chunks, stdout, FnVars >>

PostNext ==
    \/ MergeRows
    \/ TallyOffsets
    \/ SelectOffsetPanics
    \/ SelectOffset
    \/ Reclassify
    \/ RemergeRows
    \/ PrintRow
    \/ Finish

(***************************************************************************)
(* The chunk sequences the post-interpretation passes are checked on: up   *)
(* to MaxRows chunks, the i-th with the text of the i-th capital letter,   *)
(* an x of XS, and a y that starts at one of Tops and moves by one of      *)
(* Steps from chunk to chunk (so ys repeat, rise and fall).                *)
(***************************************************************************)
Tops ==
    { 100, -10 }

Steps ==
    { -10, -8, -2, 0, 2 }

XS ==
    { 0, 5 }

RECURSIVE LadderYs(_, _)
LadderYs(top, steps) ==
    IF Len(steps) = 0 THEN << top >>
    ELSE << top >> \o LadderYs(top + steps[1], [ i \in 1..(Len(steps) - 1) |-> steps[i + 1] ])

\* the chunk sequence of n chunks given by a first y, the steps and the xs
InputChunks(n, top, steps, xs) ==
    [ i \in 1..n |-> TextChunk(<< 64 + i >>, xs[i], LadderYs(top, steps)[i]) ]

LegacyFont ==
    [ encoding |-> "WinAnsiEncoding", unicode_map |-> None ]

\* the state of main() at line 145, after a document of one page
InitPost ==
    /\ pc = "merge"
    /\ fatal = "none"
    /\ pages = 1
    /\ fonts = [ f \in { "F1" } |-> LegacyFont ]
    /\ page_number = 1
    /\ operations = << >>
    /\ op_count = 0
    /\ current_font_id = None
    /\ in_text = FALSE
    /\ current_text = << >>
    /\ x = 0
    /\ y = 0
    /\ \E n \in 0..MaxRows :
         \E top \in Tops, steps \in [ 1..(n - 1) -> Steps ], xs \in [ 1..n -> XS ] :
             text_chunks = InputChunks(n, top, steps, xs)
    /\ merged_chunks = << >>
    /\ upward_offsets = EmptyMap
    /\ previous_y = 0
    /\ superscript_offset = 0
    /\ new_text_chunks = << >>
    /\ last_y = 0
    /\ last_x = 0
    /\ next_row = 1
    /\ final_chunks = << >>
    /\ stdout = << >>
    /\ font = None
    /\ text = << >>
    /\ decoded = None
    /\ operation = None
    /\ result = None

SpecPost ==
    InitPost /\ [][PostNext]_vars

(***************************************************************************)
(* The post-interpretation passes on rows whose y lies so far apart that   *)
(* the i32 arithmetic of lines 152-155 and 176-177 overflows.  With        *)
(* overflow checks the operation panics; without them it wraps and the     *)
(* loop goes on (the steps above).  The rows of SpecPost and of Spec are   *)
(* far from the ends of i32, where neither happens.                        *)
(***************************************************************************)
\* lines 152-155, with overflow checks: "attempt to subtract with overflow"
TallyPanics ==
    /\ pc = "tally"
    /\ TallyOverflows(merged_chunks)
    /\ pc' = "fatal"
    /\ fatal' = "ArithmeticOverflow"
    /\ UNCHANGED << InterpVars, merged_chunks, upward_offsets, previous_y,
                    superscript_offset, new_text_chunks, last_y, last_x, next_row,
                    final_chunks, stdout, FnVars >>

\* lines 176-177, with overflow checks
ReclassifyPanics ==
    /\ pc = "reclassify"
    /\ next_row <= Len(merged_chunks)
    /\ ReclassifyOverflows([ last_x |-> last_x, last_y |-> last_y,
                             new_text_chunks |-> new_text_chunks ],
                           merged_chunks[next_row])
    /\ pc' = "fatal"
    /\ fatal' = "ArithmeticOverflow"
    /\ UNCHANGED << InterpVars, merged_chunks, upward_offsets, previous_y,
                    superscript_offset, new_text_chunks, last_y, last_x, next_row,
                    final_chunks, stdout, FnVars >>

WideNext ==
    \/ PostNext
    \/ TallyPanics
    \/ ReclassifyPanics

\* y and x of the rows: 1.2e9, 2e8, -1e9 and 0; -1 and 0
WideYs ==
    { 1200000000, 200000000, -1000000000, 0 }

WideXs ==
    { -1, 0 }

\* the state of main() at line 145, after a document of one page
InitWide ==
    /\ pc = "merge"
    /\ fatal = "none"
    /\ pages = 1
    /\ fonts = [ f \in { "F1" } |-> LegacyFont ]
    /\ page_number = 1
    /\ operations = << >>
    /\ op_count = 0
    /\ current_font_id = None
    /\ in_text = FALSE
    /\ current_text = << >>
    /\ x = 0
    /\ y = 0
    /\ \E n \in 0..MaxRows :
         \E ys \in [ 1..n -> WideYs ], xs \in [ 1..n -> WideXs ] :
             text_chunks = [ i \in 1..n |-> TextChunk(<< 64 + i >>, xs[i], ys[i]) ]
    /\ merged_chunks = << >>
    /\ upward_offsets = EmptyMap
    /\ previous_y = 0
    /\ superscript_offset = 0
    /\ new_text_chunks = << >>
    /\ last_y = 0
    /\ last_x = 0
    /\ next_row = 1
    /\ final_chunks = << >>
    /\ stdout = << >>
    /\ font = None
    /\ text = << >>
    /\ decoded = None
    /\ operation = None
    /\ result = None

SpecWide ==
    InitWide /\ [][WideNext]_vars

(***************************************************************************)
(* Font::decode, main.rs:16-28.  A call returns a String or panics (the    *)
(* unwrap at line 23).                                                     *)
(***************************************************************************)
Ok(v) ==
    [ ok |-> TRUE, value |-> v ]

Panicked ==
    [ ok |-> FALSE, value |-> << >> ]

\* std::char::from_u32 is Some for a Unicode scalar value only
IsScalar(c) ==
    (0 <= c /\ c < 55296) \/ (57343 < c /\ c <= 1114111)

\* u16::from_be_bytes
U16FromBe(hi, lo) ==
    hi * 256 + lo

\* text.chunks_exact(2): the pairs of bytes, a trailing odd byte is left out
ChunksExact2(bytes) ==
    [ i \in 1..(Len(bytes) \div 2) |-> << bytes[2 * i - 1], bytes[2 * i] >> ]

\* A lookup that ignores the table.
ResolveCodeIgnoresTable(map, code) ==
    code

\* unicode_map.get(&code).unwrap_or(&code), line 22
ResolveCode(map, code) ==
    IF code \in DOMAIN map THEN map[code] ELSE code

\* lopdf's Document::decode_text (called at line 27) for the two named
\* encodings used here: each byte with an entry in the encoding's table gives
\* that character, a byte without one is left out.  Only the bytes of ByteVals
\* and of the operands of the pages are tabulated.
LegacyChar(encoding, byte) ==
    CASE byte \in { 65, 72, 105 } -> Some(byte)
      [] byte = 39 -> IF encoding = "WinAnsiEncoding" THEN Some(39) ELSE Some(8217)
      [] byte = 216 -> IF encoding = "WinAnsiEncoding" THEN Some(216) ELSE None
      [] OTHER -> None

RECURSIVE DecodeText(_, _)
DecodeText(encoding, bytes) ==
    IF bytes = << >> THEN << >>
    ELSE LegacyChar(encoding, Head(bytes)) \o DecodeText(encoding, Tail(bytes))

decode(f, bytes) ==
    IF f.unicode_map # None
    THEN LET codes == [ i \in 1..(Len(bytes) \div 2) |->
                          ResolveCode(f.unicode_map[1],
                                      U16FromBe(ChunksExact2(bytes)[i][1],
                                                ChunksExact2(bytes)[i][2])) ]
         IN  IF \A i \in 1..Len(codes) : IsScalar(codes[i])
             THEN Ok(codes)
             ELSE Panicked
    ELSE Ok(DecodeText(f.encoding, bytes))

(***************************************************************************)
(* Font::decode applied to a Font and a byte string drawn from bounded     *)
(* sets.                                                                   *)
(***************************************************************************)
\* bytes of a text given to decode
MaxBytes == 4

ByteVals ==
    { 0, 39, 65, 216 }

\* keys and values of the custom tables: 0x0041, 0x0027, 0xD800; 0x0042, 0xD800
TableKeys ==
    { 65, 39, 55296 }

TableVals ==
    { 66, 55296 }

Encodings ==
    { "WinAnsiEncoding", "StandardEncoding" }

DecodeCall ==
    /\ pc = "decode"
    /\ decoded' = decode(font[1], text)
    /\ pc' = "decoded"
    /\ UNCHANGED << fatal, InterpVars, merged_chunks, upward_offsets, previous_y,
                    superscript_offset, new_text_chunks, last_y, last_x, next_row,
                    final_chunks, stdout, font, text, operation, result >>

InitDecode ==
    /\ pc = "decode"
    /\ fatal = "none"
    /\ pages = 0
    /\ fonts = EmptyMap
    /\ page_number = 0
    /\ operations = << >>
    /\ op_count = 0
    /\ current_font_id = None
    /\ in_text = FALSE
    /\ current_text = << >>
    /\ x = 0
    /\ y = 0
    /\ text_chunks = << >>
    /\ merged_chunks = << >>
    /\ upward_offsets = EmptyMap
    /\ previous_y = 0
    /\ superscript_offset = 0
    /\ new_text_chunks = << >>
    /\ last_y = 0
    /\ last_x = 0
    /\ next_row = 1
    /\ final_chunks = << >>
    /\ stdout = << >>
    /\ \E enc \in Encodings :
         \/ font = Some([ encoding |-> enc, unicode_map |-> None ])
         \/ \E D \in SUBSET TableKeys : \E m \in [ D -> TableVals ] :
                font = Some([ encoding |-> enc, unicode_map |-> Some(m) ])
    /\ \E n \in 0..MaxBytes : text \in [ 1..n -> ByteVals ]
    /\ decoded = None
    /\ operation = None
    /\ result = None

SpecDecode ==
    InitDecode /\ [][DecodeCall]_vars

\* the i-th big-endian 16-bit code of a byte string
CodeAt(bytes, i) ==
    bytes[2 * i - 1] * 256 + bytes[2 * i]

\* what C9 says the i-th character is
C9_Char(map, bytes, i) ==
    IF CodeAt(bytes, i) \in DOMAIN map THEN map[CodeAt(bytes, i)] ELSE CodeAt(bytes, i)

\* C9: for a Font with a custom table and an even-length text, decode returns
\* the string whose i-th character is the table's value for the i-th code, or
\* the code itself when the table has no such key, whatever the encoding is;
\* it returns no string (it panics) exactly when one of these values is no
\* Unicode scalar value, for which there is no such character.
C9_DecodeWithTable ==
    (pc = "decoded" /\ font[1].unicode_map # None /\ Len(text) % 2 = 0) =>
        LET map == font[1].unicode_map[1]
            n == Len(text) \div 2
        IN  IF \A i \in 1..n : IsScalar(C9_Char(map, text, i))
            THEN /\ decoded.ok
                 /\ Len(decoded.value) = n
                 /\ \A i \in 1..n : decoded.value[i] = C9_Char(map, text, i)
            ELSE ~decoded.ok

\* a text of two codes, the first a key of the table and the second not, decoded
\* to the table's value and the second code itself, where the encoding alone
\* would give another string
C9_Witness ==
    /\ pc = "decoded"
    /\ font[1].unicode_map # None
    /\ Len(text) = 4
    /\ CodeAt(text, 1) \in DOMAIN font[1].unicode_map[1]
    /\ CodeAt(text, 2) \notin DOMAIN font[1].unicode_map[1]
    /\ decoded = Ok(<< font[1].unicode_map[1][CodeAt(text, 1)], CodeAt(text, 2) >>)
    /\ DecodeText(font[1].encoding, text) # decoded.value

\* C18: for a Font with a custom table, decode of a text of odd length returns
\* no string (the input is malformed, the trailing byte is not dropped), decode
\* of a text with a code whose value (from the table, or the code itself) is no
\* Unicode scalar value returns no string, and a string returned has exactly
\* len / 2 characters.
C18_MalformedTextIsRejected ==
    (pc = "decoded" /\ font[1].unicode_map # None) =>
        /\ Len(text) % 2 = 1 => ~decoded.ok
        /\ (\E i \in 1..(Len(text) \div 2) :
               ~IsScalar(C9_Char(font[1].unicode_map[1], text, i))) => ~decoded.ok
        /\ decoded.ok => (Len(text) % 2 = 0 /\ Len(decoded.value) = Len(text) \div 2)

(***************************************************************************)
(* parse_unicode_map, main.rs:221-270.  An operand is a lopdf Object; an   *)
(* operation is an operator with its operands.                             *)
(***************************************************************************)
StringObj(bytes) ==
    [ kind |-> "String", bytes |-> bytes, num |-> 0, den |-> 1 ]

NameObj(bytes) ==
    [ kind |-> "Name", bytes |-> bytes, num |-> 0, den |-> 1 ]

IntegerObj(n) ==
    [ kind |-> "Integer", bytes |-> << >>, num |-> n, den |-> 1 ]

\* the real number num / den
RealObj(num, den) ==
    [ kind |-> "Real", bytes |-> << >>, num |-> num, den |-> den ]

Operation(operator, operands) ==
    [ operator |-> operator, operands |-> operands ]

\* lines 239-256: as_str() is Ok for a String, try_into() for 2 bytes
IsU16Operand(operand) ==
    operand.kind = "String" /\ Len(operand.bytes) = 2

U16Operand(operand) ==
    U16FromBe(operand.bytes[1], operand.bytes[2])

RECURSIVE InsertPairs(_, _)
\* lines 235-264: the pairs of operands in order; a panic ends the call
InsertPairs(map, operands) ==
    IF Len(operands) < 2 THEN Ok(map)
    ELSE IF ~(IsU16Operand(operands[1]) /\ IsU16Operand(operands[2])) THEN Panicked
    ELSE InsertPairs(MapInsert(map, U16Operand(operands[1]), U16Operand(operands[2])),
                     Tail(Tail(operands)))

\* A parser that keeps the first value inserted for a code.
ParseStepFirstWins(map, op) ==
    IF op.operator = "endbfchar"
    THEN IF Len(op.operands) % 2 # 0 THEN Panicked
         ELSE LET r == InsertPairs(EmptyMap, op.operands)
              IN  IF r.ok
                  THEN Ok([ k \in DOMAIN map \cup DOMAIN r.value |->
                              IF k \in DOMAIN map THEN map[k] ELSE r.value[k] ])
                  ELSE Panicked
    ELSE Ok(map)

\* A parser without the assert of line 230: a trailing odd operand is left out.
ParseStepWithoutAssert(map, op) ==
    IF op.operator = "endbfchar" THEN InsertPairs(map, op.operands) ELSE Ok(map)

\* the body of the loop at 227-267 for one operation, on the map built so far
ParseStep(map, op) ==
    IF op.operator = "endbfchar"
    THEN IF Len(op.operands) % 2 # 0 THEN Panicked
         ELSE InsertPairs(map, op.operands)
    ELSE Ok(map)

RECURSIVE ParseLoop(_, _)
ParseLoop(r, operations_) ==
    IF ~r.ok \/ operations_ = << >> THEN r
    ELSE ParseLoop(ParseStep(r.value, Head(operations_)), Tail(operations_))

\* the whole call on the operations of a decoded stream
parse_unicode_map(operations_) ==
    ParseLoop(Ok(EmptyMap), operations_)

(***************************************************************************)
(* parse_unicode_map applied to a stream whose operations are drawn one by *)
(* one: a "beginbfchar" with its count, or an "endbfchar" with up to       *)
(* MaxOperands operands of CMapOperands.                                   *)
(***************************************************************************)
\* operands of an endbfchar operation of a code-to-Unicode stream
MaxOperands == 4

\* <0041>, <0042> and <41>
CMapOperands ==
    { StringObj(<< 0, 65 >>), StringObj(<< 0, 66 >>), StringObj(<< 65 >>) }

CMapOperations ==
    { Operation("beginbfchar", << IntegerObj(n) >>) : n \in 1..2 } \cup
    UNION { { Operation("endbfchar", operands) : operands \in [ 1..n -> CMapOperands ] } :
            n \in 0..MaxOperands }

\* line 227, one operation that does not panic
ParseOperation ==
    /\ pc = "parse"
    /\ \E op \in CMapOperations :
         /\ ParseStep(result.value, op).ok
         /\ operation' = Some(op)
         /\ result' = ParseStep(result.value, op)
    /\ UNCHANGED << pc, fatal, InterpVars, merged_chunks, upward_offsets, previous_y,
                    superscript_offset, new_text_chunks, last_y, last_x, next_row,
                    final_chunks, stdout, font, text, decoded >>

\* lines 230-256, the assert or an expect panics
ParsePanics ==
    /\ pc = "parse"
    /\ \E op \in CMapOperations :
         /\ ~ParseStep(result.value, op).ok
         /\ operation' = Some(op)
         /\ result' = Panicked
    /\ pc' = "fatal"
    /\ fatal' = "MalformedFont"
    /\ UNCHANGED << InterpVars, merged_chunks, upward_offsets, previous_y,
                    superscript_offset, new_text_chunks, last_y, last_x, next_row,
                    final_chunks, stdout, font, text, decoded >>

\* line 269
ParseReturn ==
    /\ pc = "parse"
    /\ pc' = "parsed"
    /\ UNCHANGED << fatal, InterpVars, merged_chunks, upward_offsets, previous_y,
                    superscript_offset, new_text_chunks, last_y, last_x, next_row,
                    final_chunks, stdout, FnVars >>

CMapNext ==
    \/ ParseOperation
    \/ ParsePanics
    \/ ParseReturn

InitCMap ==
    /\ pc = "parse"
    /\ fatal = "none"
    /\ pages = 0
    /\ fonts = EmptyMap
    /\ page_number = 0
    /\ operations = << >>
    /\ op_count = 0
    /\ current_font_id = None
    /\ in_text = FALSE
    /\ current_text = << >>
    /\ x = 0
    /\ y = 0
    /\ text_chunks = << >>
    /\ merged_chunks = << >>
    /\ upward_offsets = EmptyMap
    /\ previous_y = 0
    /\ superscript_offset = 0
    /\ new_text_chunks = << >>
    /\ last_y = 0
    /\ last_x = 0
    /\ next_row = 1
    /\ final_chunks = << >>
    /\ stdout = << >>
    /\ font = None
    /\ text = << >>
    /\ decoded = None
    /\ operation = None
    /\ result = Ok(EmptyMap)

SpecCMap ==
    InitCMap /\ [][CMapNext]_vars

\* a well-formed bfchar block: pairs of 2-byte strings
C10_WellFormed(op) ==
    op.operator = "endbfchar" =>
        /\ Len(op.operands) % 2 = 0
        /\ \A j \in 1..Len(op.operands) :
               op.operands[j].kind = "String" /\ Len(op.operands[j].bytes) = 2

C10_Code(operand) ==
    256 * operand.bytes[1] + operand.bytes[2]

\* the indices j of the pairs of operands whose code is k
C10_PairsFor(operands, k) ==
    { j \in 1..(Len(operands) \div 2) : C10_Code(operands[2 * j - 1]) = k }

\* map with the pairs of operands folded in, the last pair of a code winning
C10_Folded(map, operands) ==
    [ k \in DOMAIN map \cup { C10_Code(operands[2 * j - 1]) :
                                j \in 1..(Len(operands) \div 2) } |->
        IF C10_PairsFor(operands, k) = {} THEN map[k]
        ELSE C10_Code(operands[2 * Max(C10_PairsFor(operands, k))]) ]

\* the stream of the example: a begin marker, then the block of four operands
C10_Example ==
    << Operation("beginbfchar", << IntegerObj(2) >>),
       Operation("endbfchar", << StringObj(<< 0, 65 >>), StringObj(<< 0, 66 >>),
                                 StringObj(<< 0, 67 >>), StringObj(<< 0, 68 >>) >>) >>

\* C10: the map starts empty; every well-formed operation handled folds the
\* operand pairs of an endbfchar in, in order, a later pair of a code replacing
\* an earlier one, and any other operator leaves the map as it is; the map
\* returned is the map so built.  The example yields {0x41 -> 0x42, 0x43 -> 0x44}.
C10_ParseFoldsPairs ==
    [][ /\ parse_unicode_map(C10_Example) = Ok((65 :> 66) @@ (67 :> 68))
        /\ (pc = "parse" /\ operation = None) => result = Ok(EmptyMap)
        /\ (pc = "parse" /\ operation' # operation /\ C10_WellFormed(operation'[1])) =>
            /\ pc' = "parse"
            /\ result'.ok
            /\ result'.value =
                 IF operation'[1].operator = "endbfchar"
                 THEN C10_Folded(result.value, operation'[1].operands)
                 ELSE result.value
        /\ (pc = "parse" /\ pc' = "parsed") => result' = result
      ]_vars

\* a block whose second pair replaced the value of its first pair, after an
\* earlier block had given the code another value too
C10_Witness ==
    /\ pc = "parsed"
    /\ operation = Some(Operation("endbfchar",
                        << StringObj(<< 0, 65 >>), StringObj(<< 0, 65 >>),
                           StringObj(<< 0, 65 >>), StringObj(<< 0, 66 >>) >>))
    /\ result = Ok((65 :> 66) @@ (66 :> 66))

(***************************************************************************)
(* Font resolution, main.rs:60-82.  A page declares fonts: font id ->      *)
(* font data, with an encoding and possibly a ToUnicode reference into the *)
(* objects of the document.                                                *)
(***************************************************************************)
FontData(encoding, to_unicode) ==
    [ encoding |-> encoding, to_unicode |-> to_unicode ]

\* the stream of object 7: <4869> -> <0041>
GoodCMap ==
    << Operation("beginbfchar", << IntegerObj(1) >>),
       Operation("endbfchar", << StringObj(<< 72, 105 >>), StringObj(<< 0, 65 >>) >>) >>

\* the stream of object 8: an odd number of operands
OddCMap ==
    << Operation("beginbfchar", << IntegerObj(1) >>),
       Operation("endbfchar", << StringObj(<< 72, 105 >>) >>) >>

\* document.objects: 7 and 8 are streams, 9 is no stream, 10 does not exist
ObjectIds ==
    { 7, 8, 9 }

IsStream(id) ==
    id \in { 7, 8 }

StreamOperations(id) ==
    IF id = 7 THEN GoodCMap ELSE OddCMap

\* the fonts a page can declare: none, or F1 as one of these
FontDatas ==
    { FontData("WinAnsiEncoding", None) } \cup
    { FontData("WinAnsiEncoding", Some(id)) : id \in { 7, 8, 9, 10 } }

PageFonts ==
    { EmptyMap } \cup { [ id \in { "F1" } |-> d ] : d \in FontDatas }

Resolved(v) ==
    [ ok |-> TRUE, value |-> v, fatal |-> "none" ]

ResolveFailed(kind) ==
    [ ok |-> FALSE, value |-> EmptyMap, fatal |-> kind ]

\* A resolver without the test of line 64: a later declaration of an identifier
\* replaces the Font of the cache.
ResolveFontReplaces(cache, font_id, font_data) ==
    IF font_data.to_unicode = None
    THEN Resolved(MapInsert(cache, font_id,
                            [ encoding |-> font_data.encoding, unicode_map |-> None ]))
    ELSE IF font_data.to_unicode[1] \notin ObjectIds
    THEN ResolveFailed("UnresolvableReference")
    ELSE IF ~IsStream(font_data.to_unicode[1])
    THEN ResolveFailed("NotAStream")
    ELSE IF ~parse_unicode_map(StreamOperations(font_data.to_unicode[1])).ok
    THEN ResolveFailed("MalformedFont")
    ELSE Resolved(MapInsert(cache, font_id,
            [ encoding |-> font_data.encoding,
              unicode_map |->
                Some(parse_unicode_map(StreamOperations(font_data.to_unicode[1])).value) ]))

\* lines 64-80 for one (font_id, font_data) of a page
ResolveFont(cache, font_id, font_data) ==
    IF font_id \in DOMAIN cache THEN Resolved(cache)
    ELSE IF font_data.to_unicode = None
    THEN Resolved(MapInsert(cache, font_id,
                            [ encoding |-> font_data.encoding, unicode_map |-> None ]))
    ELSE IF font_data.to_unicode[1] \notin ObjectIds
    THEN ResolveFailed("UnresolvableReference")
    ELSE IF ~IsStream(font_data.to_unicode[1])
    THEN ResolveFailed("NotAStream")
    ELSE IF ~parse_unicode_map(StreamOperations(font_data.to_unicode[1])).ok
    THEN ResolveFailed("MalformedFont")
    ELSE Resolved(MapInsert(cache, font_id,
            [ encoding |-> font_data.encoding,
              unicode_map |->
                Some(parse_unicode_map(StreamOperations(font_data.to_unicode[1])).value) ]))

RECURSIVE ResolveLoop(_, _, _)
\* line 63: the fonts of one page, in the order of their identifiers
ResolveLoop(r, ids, page_fonts) ==
    IF ~r.ok \/ ids = << >> THEN r
    ELSE ResolveLoop(ResolveFont(r.value, Head(ids), page_fonts[Head(ids)]),
                     Tail(ids), page_fonts)

RECURSIVE SortedIds(_)
\* font identifiers in the order of the map
SortedIds(S) ==
    IF S = {} THEN << >>
    ELSE LET first == CHOOSE a \in S : \A b \in S : a = b \/ a = "F1"
         IN  << first >> \o SortedIds(S \ { first })

ResolvePageFonts(cache, page_fonts) ==
    ResolveLoop(Resolved(cache), SortedIds(DOMAIN page_fonts), page_fonts)

\* an endbfchar with an odd number of operands, or with an operand that is not
\* exactly 2 bytes long
C11_Malformed(op) ==
    /\ op.operator = "endbfchar"
    /\ \/ Len(op.operands) % 2 = 1
       \/ \E j \in 1..Len(op.operands) : Len(op.operands[j].bytes) # 2

\* the streams of the document's objects that hold such an operation
C11_MalformedStreams ==
    { id \in { 7, 8 } :
        \E j \in 1..Len(StreamOperations(id)) : C11_Malformed(StreamOperations(id)[j]) }

\* C11: an endbfchar with an odd number of operands, or with an operand whose
\* length is not exactly 2 bytes, ends parse_unicode_map in the fatal
\* malformed-font condition, whatever was parsed before it: no table is
\* returned, not even the one built so far, nothing of the interpreter's state
\* changes, and resolving a font whose table is such a stream yields no Font.
C11_MalformedBlockIsFatal ==
    [][ /\ (pc = "parse" /\ operation' # operation /\ C11_Malformed(operation'[1])) =>
            /\ pc' = "fatal"
            /\ fatal' = "MalformedFont"
            /\ result' = Panicked
            /\ UNCHANGED << InterpVars, stdout >>
        /\ pc = "fatal" => UNCHANGED << pc, fatal, result >>
        /\ \A id \in C11_MalformedStreams :
               /\ parse_unicode_map(StreamOperations(id)) = Panicked
               /\ ResolveFont(EmptyMap, "F1", FontData("WinAnsiEncoding", Some(id)))
                    = ResolveFailed("MalformedFont")
      ]_vars

\* a block whose first pair is well formed and whose second pair has a 1-byte
\* operand, after a well-formed block: the run is over and there is no table
C11_Witness ==
    /\ pc = "fatal"
    /\ fatal = "MalformedFont"
    /\ operation = Some(Operation("endbfchar",
                        << StringObj(<< 0, 65 >>), StringObj(<< 0, 66 >>),
                           StringObj(<< 65 >>), StringObj(<< 0, 65 >>) >>))
    /\ result = Panicked
    /\ C11_MalformedStreams = { 8 }

(***************************************************************************)
(* The operands of SetTextMatrix, main.rs:121-136.                         *)
(***************************************************************************)
\* the real num / den (den > 0) as i32: rounded towards zero; the reals of the
\* model are far from the ends of i32, where the conversion saturates
RealAsI32(num, den) ==
    IF num < 0 THEN -((-num) \div den) ELSE num \div den

IsNumber(operand) ==
    operand.kind \in { "Integer", "Real" }

\* x as i32 of an Integer (an i64) or a Real; the integers of the model fit in
\* an i32, which the conversion leaves as they are
AsI32(operand) ==
    IF operand.kind = "Integer" THEN operand.num
    ELSE RealAsI32(operand.num, operand.den)

(***************************************************************************)
(* The operations a page can hold.                                         *)
(***************************************************************************)
\* operations of a document, over all its pages
MaxOps == 5

\* pages of a document
MaxPages == 2

\* "Hi"
TextOperands ==
    { StringObj(<< 72, 105 >>) }

\* [1 0 0 1 10 100], [1 0 0 1 -5.5 90.5] and [1 0 0 1 /A 100]
MatrixOperands ==
    { << IntegerObj(1), IntegerObj(0), IntegerObj(0), IntegerObj(1),
         IntegerObj(10), IntegerObj(100) >>,
      << IntegerObj(1), IntegerObj(0), IntegerObj(0), IntegerObj(1),
         RealObj(-11, 2), RealObj(181, 2) >>,
      << IntegerObj(1), IntegerObj(0), IntegerObj(0), IntegerObj(1),
         NameObj(<< 65 >>), IntegerObj(100) >> }

FontOperands ==
    { NameObj(<< 70, 49 >>) }

\* as_name() of a font operand, as the identifier of the cache
FontName(operand) ==
    IF operand.bytes = << 70, 49 >> THEN "F1" ELSE "F2"

\* an operator the interpreter does not know
OtherOperators ==
    { "Td" }

(***************************************************************************)
(* main.rs:60-143: font resolution and the interpretation of the pages.    *)
(***************************************************************************)
PostVars ==
    << merged_chunks, upward_offsets, previous_y, superscript_offset, new_text_chunks,
       last_y, last_x, next_row, final_chunks, stdout >>

\* lines 62-81 for one more page of the document
ResolvePage ==
    /\ pc = "resolve"
    /\ pages < MaxPages
    /\ \E page_fonts \in PageFonts :
         /\ ResolvePageFonts(fonts, page_fonts).ok
         /\ fonts' = ResolvePageFonts(fonts, page_fonts).value
    /\ pages' = pages + 1
    /\ UNCHANGED << pc, fatal, page_number, operations, op_count, current_font_id,
                    in_text, current_text, x, y, text_chunks, PostVars, FnVars >>

\* lines 67-71: the expect or parse_unicode_map panics, or as_stream()? returns
ResolvePanics ==
    /\ pc = "resolve"
    /\ pages < MaxPages
    /\ \E page_fonts \in PageFonts :
         /\ ~ResolvePageFonts(fonts, page_fonts).ok
         /\ fatal' = ResolvePageFonts(fonts, page_fonts).fatal
    /\ pages' = pages + 1
    /\ pc' = "fatal"
    /\ UNCHANGED << fonts, page_number, operations, op_count, current_font_id,
                    in_text, current_text, x, y, text_chunks, PostVars, FnVars >>

\* line 82 to line 84: all pages visited
EndResolve ==
    /\ pc = "resolve"
    /\ pc' = "pages"
    /\ UNCHANGED << fatal, pages, fonts, page_number, operations, op_count,
                    current_font_id, in_text, current_text, x, y, text_chunks,
                    PostVars, FnVars >>

\* A page loop that keeps the font selected on the page before.
StartPageKeepsFont ==
    /\ pc \in { "pages", "interp" }
    /\ page_number < pages
    /\ page_number' = page_number + 1
    /\ in_text' = FALSE
    /\ current_text' = << >>
    /\ x' = 0
    /\ y' = 0
    /\ operations' = << >>
    /\ pc' = "interp"
    /\ UNCHANGED << fatal, pages, fonts, op_count, current_font_id, text_chunks,
                    PostVars, FnVars >>

\* A page loop that keeps the open text block and its text from the page before.
StartPageKeepsText ==
    /\ pc \in { "pages", "interp" }
    /\ page_number < pages
    /\ page_number' = page_number + 1
    /\ current_font_id' = None
    /\ x' = 0
    /\ y' = 0
    /\ operations' = << >>
    /\ pc' = "interp"
    /\ UNCHANGED << fatal, pages, fonts, op_count, in_text, current_text, text_chunks,
                    PostVars, FnVars >>

\* lines 86-92: the first page, or the operations of a page are exhausted (line
\* 142) and the next page starts, with the state of its interpreter
StartPage ==
    /\ pc \in { "pages", "interp" }
    /\ page_number < pages
    /\ page_number' = page_number + 1
    /\ current_font_id' = None
    /\ in_text' = FALSE
    /\ current_text' = << >>
    /\ x' = 0
    /\ y' = 0
    /\ operations' = << >>
    /\ pc' = "interp"
    /\ UNCHANGED << fatal, pages, fonts, op_count, text_chunks, PostVars, FnVars >>

\* the operation op of the page is taken from the iterator
Consume(op) ==
    /\ pc = "interp"
    /\ op_count < MaxOps
    /\ operations' = Append(operations, op)
    /\ op_count' = op_count + 1

\* line 100
BeginText ==
    /\ Consume(Operation("BT", << >>))
    /\ in_text' = TRUE
    /\ UNCHANGED << pc, fatal, pages, fonts, page_number, current_font_id,
                    current_text, x, y, text_chunks, PostVars, FnVars >>

\* An EndText that pushes a chunk only when a text block is open.
EndTextOnlyInBlock ==
    /\ Consume(Operation("ET", << >>))
    /\ in_text' = FALSE
    /\ text_chunks' = IF in_text THEN Append(text_chunks, TextChunk(current_text, x, y))
                      ELSE text_chunks
    /\ current_text' = << >>
    /\ UNCHANGED << pc, fatal, pages, fonts, page_number, current_font_id, x, y,
                    PostVars, FnVars >>

\* lines 101-109
EndText ==
    /\ Consume(Operation("ET", << >>))
    /\ in_text' = FALSE
    /\ text_chunks' = Append(text_chunks, TextChunk(current_text, x, y))
    /\ current_text' = << >>
    /\ UNCHANGED << pc, fatal, pages, fonts, page_number, current_font_id, x, y,
                    PostVars, FnVars >>

\* A SetFont that looks the font up at once and fails when the cache has none.
SetFontLooksUp ==
    /\ \E operand \in FontOperands :
         /\ Consume(Operation("Tf", << operand, IntegerObj(12) >>))
         /\ current_font_id' = Some(FontName(operand))
         /\ IF FontName(operand) \in DOMAIN fonts
            THEN UNCHANGED << pc, fatal >>
            ELSE pc' = "fatal" /\ fatal' = "MissingFontContext"
    /\ UNCHANGED << pages, fonts, page_number, in_text, current_text,
                    x, y, text_chunks, PostVars, FnVars >>

\* lines 110-113
SetFont ==
    /\ \E operand \in FontOperands :
         /\ Consume(Operation("Tf", << operand, IntegerObj(12) >>))
         /\ current_font_id' = Some(FontName(operand))
    /\ UNCHANGED << pc, fatal, pages, fonts, page_number, in_text, current_text,
                    x, y, text_chunks, PostVars, FnVars >>

\* line 116: the font of the current font id
HasFont ==
    current_font_id # None /\ current_font_id[1] \in DOMAIN fonts

\* lines 114-118
ShowText ==
    /\ in_text
    /\ \E operand \in TextOperands :
         /\ Consume(Operation("Tj", << operand >>))
         /\ HasFont
         /\ decode(fonts[current_font_id[1]], operand.bytes).ok
         /\ current_text' = current_text
                \o decode(fonts[current_font_id[1]], operand.bytes).value
    /\ UNCHANGED << pc, fatal, pages, fonts, page_number, current_font_id, in_text,
                    x, y, text_chunks, PostVars, FnVars >>

\* line 116: an unwrap panics, no font is selected or the cache has none for it
ShowTextPanics ==
    /\ in_text
    /\ \E operand \in TextOperands :
         /\ Consume(Operation("Tj", << operand >>))
    /\ ~HasFont
    /\ pc' = "fatal"
    /\ fatal' = "MissingFontContext"
    /\ UNCHANGED << pages, fonts, page_number, current_font_id, in_text,
                    current_text, x, y, text_chunks, PostVars, FnVars >>

\* lines 119-139
SetTextMatrix ==
    /\ \E operands \in MatrixOperands :
         /\ Consume(Operation("Tm", operands))
         /\ IsNumber(operands[5]) /\ IsNumber(operands[6])
         /\ x' = AsI32(operands[5])
         /\ y' = AsI32(operands[6])
    /\ UNCHANGED << pc, fatal, pages, fonts, page_number, current_font_id, in_text,
                    current_text, text_chunks, PostVars, FnVars >>

\* lines 124-127 and 132-135: "Expected integer or real"
SetTextMatrixPanics ==
    /\ \E operands \in MatrixOperands :
         /\ Consume(Operation("Tm", operands))
         /\ ~(IsNumber(operands[5]) /\ IsNumber(operands[6]))
    /\ pc' = "fatal"
    /\ fatal' = "MalformedMatrix"
    /\ UNCHANGED << pages, fonts, page_number, current_font_id, in_text,
                    current_text, x, y, text_chunks, PostVars, FnVars >>

\* line 140: any other operator, and a Tj outside a text block (the guard of
\* line 114 fails)
OtherOperation ==
    /\ \/ \E operator \in OtherOperators : Consume(Operation(operator, << >>))
       \/ ~in_text /\ \E operand \in TextOperands : Consume(Operation("Tj", << operand >>))
    /\ UNCHANGED << pc, fatal, pages, fonts, page_number, current_font_id, in_text,
                    current_text, x, y, text_chunks, PostVars, FnVars >>

\* lines 142-143: the operations of the last page are exhausted, or there is no
\* page; the variables of the page loop are gone
EndPages ==
    /\ pc \in { "pages", "interp" }
    /\ page_number = pages
    /\ current_font_id' = None
    /\ in_text' = FALSE
    /\ current_text' = << >>
    /\ x' = 0
    /\ y' = 0
    /\ operations' = << >>
    /\ pc' = "merge"
    /\ UNCHANGED << fatal, pages, fonts, page_number, op_count, text_chunks,
                    PostVars, FnVars >>

Init ==
    /\ pc = "resolve"
    /\ fatal = "none"
    /\ pages = 0
    /\ fonts = EmptyMap
    /\ page_number = 0
    /\ operations = << >>
    /\ op_count = 0
    /\ current_font_id = None
    /\ in_text = FALSE
    /\ current_text = << >>
    /\ x = 0
    /\ y = 0
    /\ text_chunks = << >>
    /\ merged_chunks = << >>
    /\ upward_offsets = EmptyMap
    /\ previous_y = 0
    /\ superscript_offset = 0
    /\ new_text_chunks = << >>
    /\ last_y = 0
    /\ last_x = 0
    /\ next_row = 1
    /\ final_chunks = << >>
    /\ stdout = << >>
    /\ font = None
    /\ text = << >>
    /\ decoded = None
    /\ operation = None
    /\ result = None

Next ==
    \/ ResolvePage
    \/ ResolvePanics
    \/ EndResolve
    \/ StartPage
    \/ BeginText
    \/ EndText
    \/ SetFont
    \/ ShowText
    \/ ShowTextPanics
    \/ SetTextMatrix
    \/ SetTextMatrixPanics
    \/ OtherOperation
    \/ EndPages
    \/ PostNext

Spec ==
    Init /\ [][Next]_vars

(***************************************************************************)
(* Properties of the post-interpretation passes, checked under SpecPost.   *)
(***************************************************************************)
\* the passes at and after line 159 have the merged rows and the histogram
AfterTally ==
    pc \in { "select", "reclassify", "print", "done" }
    \/ (pc = "fatal" /\ fatal = "NoSuperscriptOffset")

AfterSelect ==
    pc \in { "reclassify", "print", "done" }

\* the indices i >= 2 of rows whose y is lower than the y of the row before by m
DropsBy(rows, m) ==
    { i \in 2..Len(rows) : rows[i].y - rows[i - 1].y = -m }

HistCount(hist, m) ==
    IF m \in DOMAIN hist THEN hist[m] ELSE 0

\* C2: the histogram built by the tally loop maps every magnitude m > 0 to the
\* number of rows i >= 2 with r[i].y - r[i-1].y = -m, the second row included,
\* and has no other key.
C2_HistogramCountsConsecutivePairs ==
    AfterTally =>
        /\ \A m \in DOMAIN upward_offsets : m > 0
        /\ \A m \in DOMAIN upward_offsets \cup
                    { Abs(merged_chunks[i].y - merged_chunks[i - 1].y) :
                        i \in 2..Len(merged_chunks) } :
               m > 0 => HistCount(upward_offsets, m)
                        = Cardinality(DropsBy(merged_chunks, m))

\* the magnitudes with the highest count of a histogram
Modes(hist) ==
    { k \in DOMAIN hist : \A j \in DOMAIN hist : hist[j] <= hist[k] }

\* C3 as stated: the chosen superscript offset is the smallest of the magnitudes
\* with the highest count.
C3_SmallestModeChosen ==
    AfterSelect =>
        /\ superscript_offset \in Modes(upward_offsets)
        /\ superscript_offset = Min(Modes(upward_offsets))

\* C3 amended: the chosen superscript offset is a magnitude with the highest
\* count, and of several such magnitudes the largest (the last in ascending key
\* order); the histogram {2: 5, 3: 1} yields 2.
C3_LargestModeChosen ==
    /\ max_by_key((2 :> 5) @@ (3 :> 1)) = Some([ key |-> 2, count |-> 5 ])
    /\ AfterSelect =>
        /\ superscript_offset \in Modes(upward_offsets)
        /\ superscript_offset = Max(Modes(upward_offsets))

\* a run whose histogram has several magnitudes with the highest count
C3_Witness ==
    /\ pc = "reclassify"
    /\ Cardinality(Modes(upward_offsets)) >= 2
    /\ superscript_offset = Max(Modes(upward_offsets))

\* "<sup>" t "</sup>" and "<sub>" t "</sub>"
SupText(t) ==
    << 60, 115, 117, 112, 62 >> \o t \o << 60, 47, 115, 117, 112, 62 >>

SubText(t) ==
    << 60, 115, 117, 98, 62 >> \o t \o << 60, 47, 115, 117, 98, 62 >>

\* what C4 says one step of Phase 2 does with row, in terms of the state before
\* and after the step
C4_RowRule(row) ==
    LET emitted == new_text_chunks'[Len(new_text_chunks')]
        S == superscript_offset
    IN  /\ Len(new_text_chunks') = Len(new_text_chunks) + 1
        /\ SubSeq(new_text_chunks', 1, Len(new_text_chunks)) = new_text_chunks
        /\ IF row.x < last_x
           THEN emitted = row /\ last_x' = row.x /\ last_y' = row.y
           ELSE IF 0 < Abs(row.y - last_y) /\ Abs(row.y - last_y) <= S
           THEN /\ emitted.text = (IF row.y < last_y THEN SupText(row.text)
                                   ELSE SubText(row.text))
                /\ emitted.x = row.x
                /\ emitted.y = last_y
                /\ last_x' = row.x
                /\ last_y' = last_y
           ELSE emitted = row /\ last_x' = row.x /\ last_y' = row.y

\* C4: Phase 2 starts with lastX = lastY = 0 and no row emitted, handles the
\* merged rows one by one in order by the rule (a) / (b) / (c), and ends with
\* one emitted row per merged row.
C4_Reclassification ==
    [][ /\ (pc = "select" /\ pc' = "reclassify") =>
            (last_x' = 0 /\ last_y' = 0 /\ new_text_chunks' = << >> /\ next_row' = 1)
        /\ (pc = "reclassify" /\ pc' = "reclassify") =>
            (/\ next_row' = next_row + 1
             /\ next_row = Len(new_text_chunks) + 1
             /\ C4_RowRule(merged_chunks[next_row]))
        /\ (pc = "reclassify" /\ pc' = "print") =>
            (/\ Len(new_text_chunks) = Len(merged_chunks)
             /\ new_text_chunks' = new_text_chunks)
      ]_vars

\* rows at y = 100, 98, 90: the second became <sup> pinned to y = 100, the third
\* is an ordinary new line
C4_Witness ==
    /\ pc = "print"
    /\ Len(merged_chunks) = 3
    /\ merged_chunks[1].y = 100 /\ merged_chunks[2].y = 98 /\ merged_chunks[3].y = 90
    /\ new_text_chunks[1] = merged_chunks[1]
    /\ new_text_chunks[2] = TextChunk(SupText(merged_chunks[2].text),
                                      merged_chunks[2].x, 100)
    /\ new_text_chunks[3] = merged_chunks[3]

\* no consecutive pair of rows has a negative vertical offset
NoNegativePair(rows) ==
    \A i \in 2..Len(rows) : ~(rows[i].y - rows[i - 1].y < 0)

\* C5: when no consecutive pair of merged rows has a negative vertical offset,
\* the run ends in the fatal "no superscript offset" condition with nothing
\* printed.
C5_NoSignalIsFatal ==
    (AfterTally /\ pc # "select" /\ NoNegativePair(merged_chunks)) =>
        (pc = "fatal" /\ fatal = "NoSuperscriptOffset" /\ stdout = << >>)

RECURSIVE ConcatTexts(_, _, _)
\* the concatenation of the texts of chunks[from..to]
ConcatTexts(chunks, from, to) ==
    IF from > to THEN << >>
    ELSE chunks[from].text \o ConcatTexts(chunks, from + 1, to)

\* the first indices of the maximal runs of consecutive chunks with equal y
RunStarts(chunks) ==
    { i \in 1..Len(chunks) : i = 1 \/ chunks[i].y # chunks[i - 1].y }

\* the last index of the run that starts at s
RunEnd(chunks, s) ==
    LET later == { i \in RunStarts(chunks) : i > s }
    IN  IF later = {} THEN Len(chunks) ELSE Min(later) - 1

\* rows is the row sequence C6 describes for chunks
IsRunMerge(rows, chunks) ==
    LET starts == SortedKeys(RunStarts(chunks))
    IN  /\ Len(rows) = Len(starts)
        /\ \A k \in 1..Len(starts) :
               rows[k] = TextChunk(ConcatTexts(chunks, starts[k], RunEnd(chunks, starts[k])),
                                   chunks[starts[k]].x, chunks[starts[k]].y)

\* C6: merge_text_rows returns one row per maximal run of consecutive chunks
\* with equal y, in input order, with the run's texts concatenated and the
\* position of the run's first chunk (both uses of the merger).
C6_MergeIsRunPartition ==
    /\ pc # "merge" => IsRunMerge(merged_chunks, text_chunks)
    /\ pc \in { "print", "done" } => IsRunMerge(final_chunks, new_text_chunks)

\* [{"A",0,100},{"B",0,100},{"C",5,90}] merged to [{"AB",0,100},{"C",5,90}]
C6_Witness ==
    /\ pc = "tally"
    /\ text_chunks = << TextChunk(<< 65 >>, 0, 100), TextChunk(<< 66 >>, 0, 100),
                        TextChunk(<< 67 >>, 5, 90) >>
    /\ merged_chunks = << TextChunk(<< 65, 66 >>, 0, 100), TextChunk(<< 67 >>, 5, 90) >>

\* C7: the merger's output never has two consecutive rows with equal y, and
\* merging it again returns it unchanged.
C7_MergeIdempotent ==
    /\ pc # "merge" =>
        /\ \A i \in 2..Len(merged_chunks) : merged_chunks[i].y # merged_chunks[i - 1].y
        /\ merge_text_rows(merged_chunks) = merged_chunks
    /\ pc \in { "print", "done" } =>
        /\ \A i \in 2..Len(final_chunks) : final_chunks[i].y # final_chunks[i - 1].y
        /\ merge_text_rows(final_chunks) = final_chunks

\* a merge that joined three chunks into one row and kept another row
C7_Witness ==
    /\ pc = "tally"
    /\ Len(text_chunks) = 4
    /\ Len(merged_chunks) = 2
    /\ Len(merged_chunks[1].text) = 3

\* Phase 2 is over: new_text_chunks holds one row per merged row
AfterReclassify ==
    pc \in { "print", "done" }

\* Phase 2 passed the i-th merged row through unchanged
C16_Unchanged(i) ==
    new_text_chunks[i] = merged_chunks[i]

\* Phase 2 wrapped the i-th merged row in <sup> or <sub>
C16_Wrapped(i) ==
    new_text_chunks[i].text \in { SupText(merged_chunks[i].text),
                                  SubText(merged_chunks[i].text) }

\* the rows before the i-th that Phase 2 passed through unchanged
C16_LinesBefore(i) ==
    { j \in 1..(i - 1) : C16_Unchanged(j) }

\* C16: every row Phase 2 wraps in <sup> / <sub> has an earlier row that was
\* passed through unchanged, and is emitted with the y of the most recent such
\* row; the first row is passed through unchanged.
C16_WrappedRowsPinnedToPreviousLine ==
    AfterReclassify =>
        /\ \A i \in 1..Len(new_text_chunks) :
               C16_Wrapped(i) =>
                   /\ C16_LinesBefore(i) # {}
                   /\ new_text_chunks[i].y = merged_chunks[Max(C16_LinesBefore(i))].y
        /\ Len(new_text_chunks) >= 1 => C16_Unchanged(1)

\* the lines printed after the informational line
Transcript ==
    IF stdout = << >> THEN << >> ELSE Tail(stdout)

\* the number of the output line that holds the i-th row of rows: rows are put
\* on one line while their y stays the same
C17_LineOf(rows, i) ==
    Cardinality({ k \in RunStarts(rows) : k <= i })

\* the text of the output line that holds the i-th row of rows
C17_LineText(rows, i) ==
    LET s == Max({ k \in RunStarts(rows) : k <= i })
    IN  ConcatTexts(rows, s, RunEnd(rows, s))

\* C17: when the run is done, the transcript is the rows of Phase 2 put on
\* lines, one line per maximal run of rows with equal y, in order; every wrapped
\* row is on the line of the unchanged row that established its baseline (the
\* most recent unchanged row before it), after it; and a row that follows a
\* wrapped row and has the y of that baseline is on that line too.
C17_FragmentsJoinTheirLine ==
    pc = "done" =>
        /\ Len(Transcript) = Cardinality(RunStarts(new_text_chunks))
        /\ \A i \in 1..Len(new_text_chunks) :
               Transcript[C17_LineOf(new_text_chunks, i)]
                   = C17_LineText(new_text_chunks, i)
        /\ \A i \in 1..Len(new_text_chunks) :
               C16_Wrapped(i) =>
                   /\ C16_LinesBefore(i) # {}
                   /\ C17_LineOf(new_text_chunks, Max(C16_LinesBefore(i)))
                        = C17_LineOf(new_text_chunks, i)
                   /\ (i < Len(new_text_chunks)
                       /\ merged_chunks[i + 1].y = new_text_chunks[i].y) =>
                          C17_LineOf(new_text_chunks, i + 1)
                              = C17_LineOf(new_text_chunks, i)

\* the texts of all the chunks of a sequence, concatenated in order
C19_AllText(chunks) ==
    ConcatTexts(chunks, 1, Len(chunks))

RECURSIVE C19_Flatten(_)
\* the lines of a transcript, concatenated in order
C19_Flatten(lines) ==
    IF lines = << >> THEN << >> ELSE Head(lines) \o C19_Flatten(Tail(lines))

\* "<sup>", "</sup>", "<sub>" and "</sub>"
C19_Markers ==
    { << 60 >> \o SupTag \o << 62 >>, << 60, 47 >> \o SupTag \o << 62 >>,
      << 60 >> \o SubTag \o << 62 >>, << 60, 47 >> \o SubTag \o << 62 >> }

\* str starts with the string m
C19_StartsWith(str, m) ==
    Len(str) >= Len(m) /\ SubSeq(str, 1, Len(m)) = m

RECURSIVE C19_StripMarkers(_)
\* str without the markers in it
C19_StripMarkers(str) ==
    IF str = << >> THEN << >>
    ELSE IF \E m \in C19_Markers : C19_StartsWith(str, m)
    THEN LET m == CHOOSE m \in C19_Markers : C19_StartsWith(str, m)
         IN  C19_StripMarkers(SubSeq(str, Len(m) + 1, Len(str)))
    ELSE << Head(str) >> \o C19_StripMarkers(Tail(str))

\* C19: the merger's output texts concatenated are its input texts
\* concatenated (both uses); Phase 2 emits every row with its text as it is or
\* inside one <sup>..</sup> or <sub>..</sub> pair; and when the run is done the
\* transcript lines concatenated are the Phase 2 texts concatenated, and with
\* the markers removed they are the texts of all chunks in the order the chunks
\* were emitted.
C19_TextIsPreserved ==
    /\ pc # "merge" => C19_AllText(merged_chunks) = C19_AllText(text_chunks)
    /\ AfterSelect =>
        \A i \in 1..Len(new_text_chunks) :
            new_text_chunks[i].text \in { merged_chunks[i].text,
                                          SupText(merged_chunks[i].text),
                                          SubText(merged_chunks[i].text) }
    /\ AfterReclassify =>
        /\ Len(new_text_chunks) = Len(merged_chunks)
        /\ C19_AllText(final_chunks) = C19_AllText(new_text_chunks)
    /\ pc = "done" =>
        /\ C19_Flatten(Transcript) = C19_AllText(new_text_chunks)
        /\ C19_StripMarkers(C19_Flatten(Transcript)) = C19_AllText(text_chunks)

\* a finished run of four chunks: the first merge joined two of them, Phase 2
\* wrapped a row, the second merge joined rows again, and the transcript without
\* its markers is "ABCD"
C19_Witness ==
    /\ pc = "done"
    /\ Len(text_chunks) = 4
    /\ Len(merged_chunks) = 3
    /\ \E i \in 1..3 : new_text_chunks[i].text # merged_chunks[i].text
    /\ Len(final_chunks) < 3
    /\ C19_Flatten(Transcript) # << 65, 66, 67, 68 >>
    /\ C19_StripMarkers(C19_Flatten(Transcript)) = << 65, 66, 67, 68 >>

(***************************************************************************)
(* Properties of whole runs, checked under Spec.                           *)
(***************************************************************************)
\* "Hi"
Hi ==
    << 72, 105 >>

\* BeginText, SetFont F1, SetTextMatrix [1,0,0,1,10,100], ShowText "Hi", EndText
C1_Page ==
    << Operation("BT", << >>),
       Operation("Tf", << NameObj(<< 70, 49 >>), IntegerObj(12) >>),
       Operation("Tm", << IntegerObj(1), IntegerObj(0), IntegerObj(0), IntegerObj(1),
                          IntegerObj(10), IntegerObj(100) >>),
       Operation("Tj", << StringObj(Hi) >>),
       Operation("ET", << >>) >>

\* the run is past the interpretation of the pages
AfterPages ==
    pc \in { "merge", "tally", "select", "reclassify", "print", "done" }
    \/ (pc = "fatal" /\ fatal = "NoSuperscriptOffset")

\* C1 as stated: a run whose pages yield exactly one chunk, the chunk "Hi" at
\* (10, 100) of the example, ends without a fatal error and its transcript is
\* the one line "Hi".
C1_OneChunkIsPrinted ==
    (/\ text_chunks = << TextChunk(Hi, 10, 100) >>
     /\ (pc = "done" \/ pc = "fatal")
     /\ AfterPages) =>
        (pc = "done" /\ Transcript = << Hi >>)

\* C1 amended: the page of the example, with F1 resolved without a custom
\* table, yields exactly the chunk "Hi" at (10, 100) and no fatal error while
\* it is interpreted; and every run whose pages yield exactly one chunk has one
\* merged row with that chunk's text, an empty histogram, and ends in the fatal
\* "no superscript offset" condition with nothing printed.
C1_OneChunkIsFatal ==
    /\ (/\ pages = 1 /\ page_number = 1 /\ operations = C1_Page
        /\ "F1" \in DOMAIN fonts /\ fonts["F1"].unicode_map = None) =>
            (/\ pc = "interp"
             /\ text_chunks = << TextChunk(Hi, 10, 100) >>
             /\ current_text = << >> /\ ~in_text)
    /\ (AfterPages /\ Len(text_chunks) = 1) =>
            (/\ pc \in { "merge", "tally", "select", "fatal" }
             /\ stdout = << >>
             /\ pc # "merge" => merged_chunks = text_chunks
             /\ pc \in { "select", "fatal" } => upward_offsets = EmptyMap)

\* the run with the chunk of the example has ended in the fatal condition
C1_Witness ==
    /\ pc = "fatal"
    /\ fatal = "NoSuperscriptOffset"
    /\ pages = 1
    /\ "F1" \in DOMAIN fonts
    /\ fonts["F1"].unicode_map = None
    /\ text_chunks = << TextChunk(Hi, 10, 100) >>
    /\ merged_chunks = text_chunks
    /\ stdout = << >>

\* no SetFont among the operations of the page so far
NoSetFont(ops) ==
    \A i \in 1..Len(ops) : ops[i].operator # "Tf"

\* the step takes a ShowText from the page, with no SetFont before it in the page
C8_ShowTextWithoutSetFont ==
    /\ pc = "interp"
    /\ Len(operations') = Len(operations) + 1
    /\ operations'[Len(operations')].operator = "Tj"
    /\ NoSetFont(operations)

\* C8 as stated: a ShowText reached with no SetFont earlier in the same page
\* raises the fatal Missing-font-context error and no chunk is appended.
C8_ShowTextWithoutFontIsFatal ==
    [][ C8_ShowTextWithoutSetFont =>
            (/\ pc' = "fatal"
             /\ fatal' = "MissingFontContext"
             /\ text_chunks' = text_chunks) ]_vars

\* C8 amended: a ShowText reached inside a text block (inTextBlock is true) with
\* no SetFont earlier in the same page raises the fatal Missing-font-context
\* error and no chunk is appended, whatever earlier pages selected; outside a
\* text block it raises nothing.
C8_ShowTextInBlockWithoutFontIsFatal ==
    [][ C8_ShowTextWithoutSetFont =>
            IF in_text
            THEN /\ pc' = "fatal"
                 /\ fatal' = "MissingFontContext"
                 /\ text_chunks' = text_chunks
            ELSE pc' = "interp" /\ fatal' = "none" ]_vars

\* the second page has shown text in a block without selecting a font, while
\* the cache holds a font
C8_Witness ==
    /\ pc = "fatal"
    /\ fatal = "MissingFontContext"
    /\ page_number = 2
    /\ "F1" \in DOMAIN fonts
    /\ NoSetFont(operations)
    /\ operations[Len(operations)].operator = "Tj"

(***************************************************************************)
(* Properties of the content interpreter, checked under Spec.  operations  *)
(* is the sequence of operations of the current page handled so far.       *)
(***************************************************************************)
RECURSIVE C12_Last(_, _, _)
\* the index of the last operation of ops[1..i] with this operator, 0 if none
C12_Last(ops, operator, i) ==
    IF i = 0 THEN 0
    ELSE IF ops[i].operator = operator THEN i
    ELSE C12_Last(ops, operator, i - 1)

\* the index of the last EndText of ops, 0 if there is none
C12_LastEnd(ops) ==
    C12_Last(ops, "ET", Len(ops))

\* the ShowText at index i was handled inside a text block: a BeginText lies
\* between the last EndText before it (or the page start) and it
C12_InBlock(ops, i) ==
    C12_Last(ops, "BT", i - 1) > C12_Last(ops, "ET", i - 1)

\* the Font selected when the operation at index i is handled
C12_FontAt(ops, i) ==
    fonts[FontName(ops[C12_Last(ops, "Tf", i - 1)].operands[1])]

RECURSIVE C12_ShownText(_, _, _)
\* the decoded operands of the ShowTexts of ops[from..to] handled inside a text
\* block, concatenated in order
C12_ShownText(ops, from, to) ==
    IF from > to THEN << >>
    ELSE (IF ops[from].operator = "Tj" /\ C12_InBlock(ops, from)
          THEN decode(C12_FontAt(ops, from), ops[from].operands[1].bytes).value
          ELSE << >>) \o C12_ShownText(ops, from + 1, to)

\* the translation of the last SetTextMatrix of ops, (0, 0) if there is none
C12_Position(ops) ==
    LET i == C12_Last(ops, "Tm", Len(ops))
    IN  IF i = 0 THEN << 0, 0 >>
        ELSE << AsI32(ops[i].operands[5]), AsI32(ops[i].operands[6]) >>

\* the step handles one more operation of the page, with this operator
C12_Handles(operator) ==
    /\ pc = "interp"
    /\ Len(operations') = Len(operations) + 1
    /\ operations'[Len(operations')].operator = operator

\* C12: the chunk list changes only when an EndText is handled, and every
\* EndText handled (after a BeginText or not) appends exactly one chunk: its
\* text is the concatenation, in order, of the decoded operands of the ShowTexts
\* handled inside a text block since the last EndText of the page (or the page
\* start), its position is the translation of the last SetTextMatrix of the page
\* (inside a block or not), (0, 0) without one; after it the accumulator is empty
\* and no text block is open.
C12_EndTextEmitsOneChunk ==
    [][ /\ text_chunks' # text_chunks => C12_Handles("ET")
        /\ C12_Handles("ET") =>
            /\ text_chunks' = Append(text_chunks,
                   TextChunk(C12_ShownText(operations, C12_LastEnd(operations) + 1,
                                           Len(operations)),
                             C12_Position(operations)[1], C12_Position(operations)[2]))
            /\ current_text' = << >>
            /\ in_text' = FALSE
            /\ pc' = "interp"
      ]_vars

\* a page that set the position before the block opened, showed text in the
\* block and closed it: one chunk with the decoded text at the truncated position
C12_Witness ==
    /\ pc = "interp"
    /\ operations = << Operation("Tm", << IntegerObj(1), IntegerObj(0), IntegerObj(0),
                                          IntegerObj(1), RealObj(-11, 2), RealObj(181, 2) >>),
                       Operation("BT", << >>),
                       Operation("Tf", << NameObj(<< 70, 49 >>), IntegerObj(12) >>),
                       Operation("Tj", << StringObj(Hi) >>),
                       Operation("ET", << >>) >>
    /\ text_chunks = << TextChunk(<< 65 >>, -5, 90) >>
    /\ current_text = << >>
    /\ ~in_text

\* the font identifier selected by the operations ops of a page
C13_FontId(ops) ==
    LET i == C12_Last(ops, "Tf", Len(ops))
    IN  IF i = 0 THEN None ELSE Some(FontName(ops[i].operands[1]))

\* a text block is open after the operations ops of a page
C13_Open(ops) ==
    C12_Last(ops, "BT", Len(ops)) > C12_Last(ops, "ET", Len(ops))

\* the interpreter's state is the one the operations of the current page give,
\* starting from no open block, no font, (0, 0) and no text
C13_StateOfPage ==
    /\ in_text = C13_Open(operations)
    /\ current_font_id = C13_FontId(operations)
    /\ << x, y >> = C12_Position(operations)
    /\ current_text = C12_ShownText(operations, C12_LastEnd(operations) + 1,
                                    Len(operations))

\* C13: every page starts with no open text block, no font selected, position
\* (0, 0) and an empty accumulator, and the step that starts it leaves the font
\* cache and the chunk list as they are (the text of a block still open is
\* dropped); throughout a page the interpreter's state is determined by the
\* operations of THAT page alone, so neither text nor a font nor a position of
\* an earlier page is used.
C13_PageStartsReset ==
    [][ /\ page_number' # page_number =>
            /\ page_number' = page_number + 1
            /\ ~in_text' /\ current_font_id' = None /\ x' = 0 /\ y' = 0
            /\ current_text' = << >> /\ operations' = << >>
            /\ fonts' = fonts /\ text_chunks' = text_chunks
      ]_vars
    /\ [](pc = "interp" => C13_StateOfPage)

\* the first page took four operations and left no chunk; the second page, with
\* the font F1 in the cache, has closed a block at once: its chunk is empty and
\* at (0, 0), and no font is selected
C13_Witness ==
    /\ pc = "interp"
    /\ page_number = 2
    /\ op_count = 5
    /\ operations = << Operation("ET", << >>) >>
    /\ "F1" \in DOMAIN fonts
    /\ text_chunks = << TextChunk(<< >>, 0, 0) >>
    /\ current_font_id = None

\* C14: the fatal Missing-font-context error arises only in a step that handles
\* a ShowText while a text block is open; a SetFont selects its identifier and
\* never fails, whether the cache holds a Font for it or not; a ShowText outside
\* a text block changes nothing of the interpreter's state or the chunk list,
\* whether a font is selected or resolvable or not.
C14_FontLookupIsDeferred ==
    [][ /\ (fatal' = "MissingFontContext" /\ fatal # "MissingFontContext") =>
            (C12_Handles("Tj") /\ in_text)
        /\ C12_Handles("Tf") =>
            /\ pc' = "interp" /\ fatal' = "none"
            /\ current_font_id' = Some(FontName(operations'[Len(operations')].operands[1]))
            /\ UNCHANGED << in_text, x, y, current_text, text_chunks, fonts >>
        /\ (C12_Handles("Tj") /\ ~in_text) =>
            /\ pc' = "interp" /\ fatal' = "none"
            /\ UNCHANGED << in_text, current_font_id, x, y, current_text, text_chunks,
                            fonts >>
      ]_vars

\* a page of a document without fonts selected F1, showed text outside a text
\* block, then opened and closed a block: no failure, and one empty chunk
C14_Witness ==
    /\ pc = "interp"
    /\ fatal = "none"
    /\ fonts = EmptyMap
    /\ Len(operations) = 4
    /\ operations[1].operator = "Tf"
    /\ operations[2].operator = "Tj"
    /\ operations[3].operator = "BT"
    /\ operations[4].operator = "ET"
    /\ current_font_id = Some("F1")
    /\ text_chunks = << TextChunk(<< >>, 0, 0) >>

\* the cache after a first page that declares F1 without a table
C15_Cached ==
    [ id \in { "F1" } |-> LegacyFont ]

\* C15: a Font once in the cache is never replaced or removed, so the Font of
\* an identifier is the one of the first page that declares it: a page that
\* declares a cached identifier again, with whatever resource (another table, a
\* malformed table, a dangling reference), resolves nothing and cannot fail;
\* the cache changes only during resolution, which is over before the first
\* operation of a page is handled.
C15_FirstDeclarationWins ==
    [][ /\ \A id \in DOMAIN fonts : id \in DOMAIN fonts' /\ fonts'[id] = fonts[id]
        /\ fonts' # fonts => (pc = "resolve" /\ page_number = 0 /\ op_count = 0)
        /\ (pc = "resolve" /\ pages' # pages /\ "F1" \in DOMAIN fonts) =>
            (fonts' = fonts /\ fatal' = "none")
        /\ (pc # "resolve" \/ op_count' # op_count) => (fonts' = fonts /\ pc' # "resolve")
      ]_vars
    /\ \A d \in FontDatas :
           ResolvePageFonts(C15_Cached, [ id \in { "F1" } |-> d ]) = Resolved(C15_Cached)

\* two pages were resolved, the first declaring F1 with the table of object 7,
\* and text was then shown through that table
C15_Witness ==
    /\ pc = "interp"
    /\ pages = 2
    /\ page_number = 2
    /\ DOMAIN fonts = { "F1" }
    /\ fonts["F1"].unicode_map = Some(parse_unicode_map(GoodCMap).value)
    /\ text_chunks = << TextChunk(<< 65 >>, 0, 0) >>

\* the texts of the rows of a sequence, one line per row
C20_Lines(rows) ==
    [ i \in 1..Len(rows) |-> rows[i].text ]

\* C20: nothing is printed before the pages are interpreted and the superscript
\* offset is found; the first line printed is the informational line, printed
\* once, and only rows of the final sequence follow it, in order; a run that
\* ends in a fatal error has printed nothing, and a run that ends otherwise has
\* printed the informational line and then every row of the final sequence.
C20_AllOrNothing ==
    /\ stdout # << >> =>
        /\ pc \in { "reclassify", "print", "done" }
        /\ stdout[1] = InfoLine(superscript_offset)
    /\ pc = "reclassify" => stdout = << InfoLine(superscript_offset) >>
    /\ pc = "print" =>
        Transcript = SubSeq(C20_Lines(final_chunks), 1, next_row - 1)
    /\ pc = "fatal" => stdout = << >>
    /\ pc = "done" => Transcript = C20_Lines(final_chunks)

====
